---- MODULE Spec2Model ----
(***************************************************************************)
(* State-machine model of the traffic-event pipeline of foreshadow:        *)
(*   utils/data_storage.py  save_city_events, get_city_events              *)
(*   utils/date_utils.py    parse_date, parse_time, format_date,           *)
(*                          format_time_12h, validate_event_dates,         *)
(*                          do_date_ranges_overlap                         *)
(*   utils/event_finder.py  validate_event_date, find_traffic_events       *)
(*   utils/geo_tagger.py    geo_tag_events, fetch_lat_long                 *)
(*   app.py                 the script run (sidebar lookup, search section)*)
(*                                                                         *)
(* Text is a sequence of tokens (one-character strings, and numeric        *)
(* tokens such as "03" or "2025" for the digits of a date), so that the    *)
(* f-string that builds an id is a concatenation and parsing a date reads  *)
(* tokens.  A Python dict is a record whose DOMAIN is the set of its keys. *)
(***************************************************************************)
EXTENDS Integers, Sequences, FiniteSets, TLC

VARIABLES store, clock, op, ov, vd, run, geo, calls

vars == <<store, clock, op, ov, vd, run, geo, calls>>

(***************************************************************************)
(* Bounds                                                                  *)
(***************************************************************************)
MaxBatch == 2     \* longest list of events handed to one save call
MaxClock == 3     \* number of save calls (each reads datetime.now() once)
MaxDay   == 5     \* date objects are the days 1..MaxDay of March 2025

(***************************************************************************)
(* Dicts                                                                   *)
(***************************************************************************)
\* d[k] = v on a copy of d
Put(d, k, v) == [f \in DOMAIN d \cup {k} |-> IF f = k THEN v ELSE d[f]]

IsPrefix(s, t) == Len(s) <= Len(t) /\ SubSeq(t, 1, Len(s)) = s

Range(s) == {s[i] : i \in DOMAIN s}

(***************************************************************************)
(* Texts used as field values                                              *)
(***************************************************************************)
TGig     == <<"G", "i", "g">>
LMgRd    == <<"M", "G", " ", "R", "d">>
D0503    == <<"05", "-", "03", "-", "2025">>
SrcA     == <<"a">>
SrcB     == <<"b">>
CountryCode == <<"I", "N">>
CityName == <<"M", "u", "m", "b", "a", "i">>

(***************************************************************************)
(* Dates: utils/date_utils.py                                              *)
(*                                                                         *)
(* A date object is a record [y, m, d]; NoDate stands for Python's None.   *)
(* A value of type Union[str, date] is a record that says which it is.     *)
(***************************************************************************)
NoDate == [y |-> 0, m |-> 0, d |-> 0]

MkDate(y, m, d) == [y |-> y, m |-> m, d |-> d]

Str(t) == [isStr |-> TRUE, text |-> t, date |-> NoDate]

DateObj(dt) == [isStr |-> FALSE, text |-> <<>>, date |-> dt]

\* date.__lt__ : calendar order
DateLt(a, b) ==
    \/ a.y < b.y
    \/ a.y = b.y /\ a.m < b.m
    \/ a.y = b.y /\ a.m = b.m /\ a.d < b.d

DateGt(a, b) == DateLt(b, a)

\* two-digit tokens "01" .. "31" and the four-digit year tokens
Pad2Tab == << "01", "02", "03", "04", "05", "06", "07", "08", "09", "10",
              "11", "12", "13", "14", "15", "16", "17", "18", "19", "20",
              "21", "22", "23", "24", "25", "26", "27", "28", "29", "30", "31" >>

YearToks == {"2024", "2025"}

IsNum(t) == t \in Range(Pad2Tab) \cup YearToks

TokVal(t) ==
    IF t = "2024" THEN 2024
    ELSE IF t = "2025" THEN 2025
    ELSE CHOOSE i \in DOMAIN Pad2Tab : Pad2Tab[i] = t

Pad2(n) == Pad2Tab[n]

Pad4(n) == IF n = 2024 THEN "2024" ELSE "2025"

\* str.lower() on the characters of the model's alphabet
LowerChar(c) ==
    CASE c = "A" -> "a" [] c = "G" -> "g" [] c = "M" -> "m" [] c = "N" -> "n"
      [] c = "R" -> "r" [] c = "I" -> "i"
      [] OTHER -> c

Lower(t) == [i \in DOMAIN t |-> LowerChar(t[i])]

\* the sentinel non-values of parse_date
Sentinels ==
    { <<"n", "/", "a">>, <<"n", "a">>, <<"n", "o", "n", "e">>,
      <<"n", "o", "t", " ", "a", "v", "a", "i", "l", "a", "b", "l", "e">>,
      <<"n", "o", "t", " ", "s", "p", "e", "c", "i", "f", "i", "e", "d">> }

DaysInMonth(y, m) ==
    IF m = 2 THEN (IF y % 4 = 0 THEN 29 ELSE 28)
    ELSE IF m \in {4, 6, 9, 11} THEN 30 ELSE 31

\* a two-digit year is read as a year of this century
Century(y) == IF y < 100 THEN 2000 + y ELSE y

\* dateutil's parser.parse(text, fuzzy=True, dayfirst=True).date() on the
\* texts of this model: the numeric tokens are collected, other tokens are
\* skipped (fuzzy), three numbers are resolved to year, month and day with
\* the day-first rule, and anything that is not a calendar date raises
\* ValueError, which parse_date turns into None.
DateutilParse(text) ==
    LET nums == SelectSeq(text, IsNum)
    IN  IF Len(nums) # 3 THEN NoDate
        ELSE LET a == TokVal(nums[1])
                 b == TokVal(nums[2])
                 c == TokVal(nums[3])
                 ymd == IF a > 31
                          THEN (IF c <= 12 THEN MkDate(a, c, b) ELSE MkDate(a, b, c))
                          ELSE IF a > 12 \/ b <= 12 THEN MkDate(Century(c), b, a)
                          ELSE MkDate(Century(c), a, b)
             IN  IF /\ ymd.m \in 1..12
                    /\ ymd.d \in 1..DaysInMonth(ymd.y, ymd.m)
                   THEN ymd ELSE NoDate

parse_date(date_str) ==
    IF date_str = <<>> THEN NoDate
    ELSE IF Lower(date_str) \in Sentinels THEN NoDate
    ELSE DateutilParse(date_str)

\* the month written before the day
format_date_monthfirst(date_obj) ==
    IF date_obj = NoDate THEN <<>>
    ELSE <<Pad2(date_obj.m), "-", Pad2(date_obj.d), "-", Pad4(date_obj.y)>>

format_date(date_obj) ==
    IF date_obj = NoDate THEN <<>>
    ELSE <<Pad2(date_obj.d), "-", Pad2(date_obj.m), "-", Pad4(date_obj.y)>>

\* the comparison with <= in place of <
RangesMeetStrict(s1, e1, s2, e2) ==
    ~(DateLt(e1, s2) \/ e1 = s2 \/ DateGt(s1, e2))

\* the comparison of the last line of do_date_ranges_overlap
RangesMeet(s1, e1, s2, e2) == ~(DateLt(e1, s2) \/ DateGt(s1, e2))

\* a string argument is parsed, a date argument is taken as it is
AsDate(v) == IF v.isStr THEN parse_date(v.text) ELSE v.date

\* a second range that fails to parse taken as overlapping
do_date_ranges_overlap_lenient(range1_start, range1_end, range2_start, range2_end) ==
    IF range1_start.isStr /\ parse_date(range1_start.text) = NoDate THEN FALSE
    ELSE IF range1_end.isStr /\ parse_date(range1_end.text) = NoDate THEN FALSE
    ELSE IF range2_start.isStr /\ parse_date(range2_start.text) = NoDate THEN TRUE
    ELSE IF range2_end.isStr /\ parse_date(range2_end.text) = NoDate THEN TRUE
    ELSE RangesMeet(AsDate(range1_start), AsDate(range1_end),
                    AsDate(range2_start), AsDate(range2_end))

do_date_ranges_overlap(range1_start, range1_end, range2_start, range2_end) ==
    IF range1_start.isStr /\ parse_date(range1_start.text) = NoDate THEN FALSE
    ELSE IF range1_end.isStr /\ parse_date(range1_end.text) = NoDate THEN FALSE
    ELSE IF range2_start.isStr /\ parse_date(range2_start.text) = NoDate THEN FALSE
    ELSE IF range2_end.isStr /\ parse_date(range2_end.text) = NoDate THEN FALSE
    ELSE RangesMeet(AsDate(range1_start), AsDate(range1_end),
                    AsDate(range2_start), AsDate(range2_end))

(***************************************************************************)
(* Times: utils/date_utils.py                                              *)
(*                                                                         *)
(* A time object is a record [h, mi]; NoTime stands for Python's None.     *)
(***************************************************************************)
NoTime == [h |-> 0 - 1, mi |-> 0 - 1]

MkTime(h, mi) == [h |-> h, mi |-> mi]

\* the tokens a clock reading is written with
TimeToks == Range(Pad2Tab) \cup {"00", "59"}

TimeVal(t) == IF t = "00" THEN 0 ELSE IF t = "59" THEN 59 ELSE TokVal(t)

Pad2Time(n) == IF n = 0 THEN "00" ELSE IF n = 59 THEN "59" ELSE Pad2(n)

\* a run of eleven digits, as in a telephone number.  dateutil reads it as a
\* year and hands it to datetime.replace, which raises OverflowError
TPhone == <<"08335394550">>

Overflows(text) == "08335394550" \in Range(text)

\* date_utils.py:39-42 and 63-66 : the except clause names ValueError and
\* TypeError only, so the OverflowError of the parser leaves parse_date and
\* parse_time
ParseRaises(text) ==
    /\ text # <<>>
    /\ Lower(text) \notin Sentinels
    /\ Overflows(text)

\* dateutil's parser.parse(text, fuzzy=True).time() on the texts of this
\* model: a clock reading is hour ":" minute with an optional AM or PM, a
\* text that holds a calendar date and no clock reading is midnight of that
\* date, and anything else raises ValueError, which parse_time turns into
\* None.
DateutilParseTime(text) ==
    LET nums == SelectSeq(text, LAMBDA t : t \in TimeToks)
    IN  IF ":" \in Range(text)
          THEN IF Len(nums) # 2 THEN NoTime
               ELSE LET h  == TimeVal(nums[1])
                        mi == TimeVal(nums[2])
                        hh == IF "PM" \in Range(text) /\ h < 12 THEN h + 12
                              ELSE IF "AM" \in Range(text) /\ h = 12 THEN 0
                              ELSE h
                    IN  IF hh \in 0..23 /\ mi \in 0..59
                          THEN MkTime(hh, mi) ELSE NoTime
        ELSE IF DateutilParse(text) # NoDate THEN MkTime(0, 0)
        ELSE NoTime

\* date_utils.py:45-66, for a text on which the parser does not overflow
parse_time(time_str) ==
    IF time_str = <<>> THEN NoTime
    ELSE IF Lower(time_str) \in Sentinels THEN NoTime
    ELSE DateutilParseTime(time_str)

\* date_utils.py:85-98 : strftime("%I:%M %p")
format_time_12h(time_obj) ==
    IF time_obj = NoTime THEN <<>>
    ELSE LET h12 == IF time_obj.h % 12 = 0 THEN 12 ELSE time_obj.h % 12
         IN  <<Pad2Time(h12), ":", Pad2Time(time_obj.mi), " ",
               IF time_obj.h < 12 THEN "AM" ELSE "PM">>

DefaultStartTime == <<"12", ":", "00", " ", "AM">>

DefaultEndTime == <<"11", ":", "59", " ", "PM">>

(***************************************************************************)
(* The validator: validate_event_dates (date_utils.py) and                 *)
(* validate_event_date (event_finder.py)                                   *)
(*                                                                         *)
(* The result of a call is a record [raised, event]: raised names the      *)
(* exception that left the call ("" when it returned), event is the value  *)
(* returned.                                                               *)
(***************************************************************************)
EmptyDict == [k \in {} |-> <<>>]

\* event.get(k) is truthy
Truthy(event, k) == k \in DOMAIN event /\ event[k] # <<>>

Returns(event) == [raised |-> "", event |-> event]

Raises(exc) == [raised |-> exc, event |-> EmptyDict]

\* a missing start date taken from the end date
NormStartDateFromEnd(event) ==
    IF Truthy(event, "start_date") /\ parse_date(event["start_date"]) # NoDate
      THEN Put(event, "start_date", format_date(parse_date(event["start_date"])))
    ELSE IF Truthy(event, "end_date") /\ parse_date(event["end_date"]) # NoDate
      THEN Put(event, "start_date", format_date(parse_date(event["end_date"])))
      ELSE event

\* date_utils.py:164-167
NormStartDate(event) ==
    IF Truthy(event, "start_date") /\ parse_date(event["start_date"]) # NoDate
      THEN Put(event, "start_date", format_date(parse_date(event["start_date"])))
      ELSE event

\* date_utils.py:169-176
NormEndDate(event) ==
    IF Truthy(event, "end_date")
      THEN IF parse_date(event["end_date"]) # NoDate
             THEN Put(event, "end_date", format_date(parse_date(event["end_date"])))
             ELSE event
    ELSE IF Truthy(event, "start_date")
      THEN Put(event, "end_date", event["start_date"])
      ELSE event

\* the two times written and a label made of them as well
NormTimeLabelled(event, k, default) ==
    LET timed == IF Truthy(event, k) /\ parse_time(event[k]) # NoTime
                   THEN Put(event, k, format_time_12h(parse_time(event[k])))
                   ELSE Put(event, k, default)
    IN  Put(timed, "time", timed[k])

\* date_utils.py:178-186 and 188-196
NormTime(event, k, default) ==
    IF Truthy(event, k)
      THEN IF parse_time(event[k]) # NoTime
             THEN Put(event, k, format_time_12h(parse_time(event[k])))
             ELSE Put(event, k, default)
      ELSE Put(event, k, default)

DateTimeKeys == {"start_date", "end_date", "start_time", "end_time"}

\* date_utils.py:153-198
validate_event_dates(event) ==
    IF \E k \in DateTimeKeys : Truthy(event, k) /\ ParseRaises(event[k])
      THEN Raises("OverflowError")
      ELSE Returns(NormTime(NormTime(NormEndDate(NormStartDate(event)),
                                     "start_time", DefaultStartTime),
                            "end_time", DefaultEndTime))

\* date_utils.py:164-196 : the dictionary the caller passed, after the call;
\* the function writes into it, so when a parse raises it keeps what was
\* written before
event_after_validate(event) ==
    LET s1 == NormStartDate(event)
        s2 == NormEndDate(s1)
        s3 == NormTime(s2, "start_time", DefaultStartTime)
        RaisesAt(k) == Truthy(event, k) /\ ParseRaises(event[k])
    IN  IF RaisesAt("start_date") THEN event
        ELSE IF RaisesAt("end_date") THEN s1
        ELSE IF RaisesAt("start_time") THEN s2
        ELSE IF RaisesAt("end_time") THEN s3
        ELSE NormTime(s3, "end_time", DefaultEndTime)

\* event_finder.py:59-70 : a search date that is a string is parsed
SearchDateFails(v) == v.isStr /\ (ParseRaises(v.text) \/ parse_date(v.text) = NoDate)

\* event_finder.py:39-46 : the start date is there and parses
StartDateUsable(ev) ==
    /\ Truthy(ev, "start_date")
    /\ parse_date(ev["start_date"]) # NoDate

\* an end date that does not parse left as it came
WithEndDateKept(ev) == ev

\* event_finder.py:48-52 : an end date that does not parse becomes the start
\* date
WithEndDate(ev) ==
    IF parse_date(ev["end_date"]) = NoDate
      THEN Put(ev, "end_date", ev["start_date"])
      ELSE ev

\* the end date as line 48-52 leaves it in end_date_obj
EndDateObj(ev) ==
    IF parse_date(ev["end_date"]) = NoDate
      THEN parse_date(ev["start_date"])
      ELSE parse_date(ev["end_date"])

\* a range taken as it comes, whatever its order
EndBeforeStartNever(start_date_obj, end_date_obj) == FALSE

\* event_finder.py:54-57
EndBeforeStart(start_date_obj, end_date_obj) == DateLt(end_date_obj, start_date_obj)

\* event_finder.py:20-87 : every exception raised inside is caught (line 83)
\* and turned into the empty dict
validate_event_date(event, search_start_date, search_end_date) ==
    LET dated == validate_event_dates(event)
        ev    == dated.event
    IN  IF dated.raised # "" THEN Returns(EmptyDict)
        ELSE IF ~StartDateUsable(ev) THEN Returns(EmptyDict)
        ELSE IF EndBeforeStart(parse_date(ev["start_date"]), EndDateObj(ev))
          THEN Returns(EmptyDict)
        ELSE IF SearchDateFails(search_start_date) THEN Returns(EmptyDict)
        ELSE IF SearchDateFails(search_end_date) THEN Returns(EmptyDict)
        ELSE IF ~do_date_ranges_overlap(
                   DateObj(parse_date(ev["start_date"])), DateObj(EndDateObj(ev)),
                   DateObj(AsDate(search_start_date)),
                   DateObj(AsDate(search_end_date)))
          THEN Returns(EmptyDict)
        ELSE Returns(WithEndDate(ev))

\* event_finder.py:90-101
validate_event_time(event) == validate_event_dates(event)

(***************************************************************************)
(* Events                                                                  *)
(*                                                                         *)
(* Validated is an event as find_traffic_events returns it; StorageReady   *)
(* is app.py's storage_ready_event, which has start_date and end_date and  *)
(* no 'date' key.  The events of the older news pipeline carry 'date':     *)
(* DatedEvent carries both, with the same text.                            *)
(***************************************************************************)
Validated(type, loc, day, impact, src) ==
    [ event_type |-> type, location |-> loc,
      start_date |-> day, end_date |-> day,
      traffic_impact |-> impact, source |-> src ]

\* app.py:369-383
StorageReady(event, city, country_code) ==
    [ event_type |-> event.event_type, location |-> event.location,
      start_date |-> event.start_date, end_date |-> event.end_date,
      traffic_impact |-> event.traffic_impact, source |-> event.source,
      city_name |-> city, country_code |-> country_code ]

DatedEvent(event) == Put(event, "date", event.start_date)

VEv      == Validated(TGig, LMgRd, D0503, "low", SrcA)
VEvNoise == Validated(TGig, LMgRd, D0503, "high", SrcB)

EvP      == StorageReady(VEv, CityName, CountryCode)
EvPNoise == StorageReady(VEvNoise, CityName, CountryCode)
EvA      == DatedEvent(EvP)
EvANoise == DatedEvent(EvPNoise)

Events == {EvA, EvANoise, EvP, EvPNoise}

SeqsUpTo(S, n) == UNION {[1..k -> S] : k \in 0..n}

Batches == SeqsUpTo(Events, MaxBatch)

FoundLists == SeqsUpTo({VEv, VEvNoise}, MaxBatch)

(***************************************************************************)
(* The per-city store: utils/data_storage.py                               *)
(*                                                                         *)
(* store.status  "absent"  : the file does not exist                       *)
(*               "ok"      : the file holds the JSON array store.recs      *)
(*               "corrupt" : the file exists and json.load fails on it; it *)
(*                           holds the text of the records store.recs (a   *)
(*                           write that failed part-way leaves such a file)*)
(***************************************************************************)
AbsentStore == [status |-> "absent", recs |-> <<>>]

\* data_storage.py:154-162 : what save reads as the existing events
LoadExisting(st) == IF st.status = "ok" THEN st.recs ELSE <<>>

\* data_storage.py:173 : the f-string; raises KeyError when a key is missing
IdKeys == {"event_type", "location", "date"}

EventId(event) ==
    event["event_type"] \o <<"_">> \o event["location"] \o <<"_">> \o event["date"]

\* data_storage.py:170-173
Stamp(event, now, country_code) ==
    Put(Put(Put(event, "created_at", now), "country_code", country_code),
        "id", EventId(event))

\* the append without its guard
IsNewIdAlways(id, existing_event_ids) == TRUE

\* data_storage.py:176 : the test that guards the append
IsNewId(id, existing_event_ids) == id \notin existing_event_ids

\* data_storage.py:164-180 : the combined list of a call in which no event
\* raises
Combine(existing_events, events, now, country_code) ==
    LET existing_event_ids == {existing_events[i].id : i \in DOMAIN existing_events}
        stamped == [i \in DOMAIN events |-> Stamp(events[i], now, country_code)]
        Keep(r) == IsNewId(r.id, existing_event_ids)
    IN  existing_events \o SelectSeq(stamped, Keep)

\* data_storage.py:144 and 173 : the call gets as far as the write, that is,
\* the list is not empty and no event raises KeyError in the f-string
ReachesWrite(events) ==
    /\ events # <<>>
    /\ \A i \in DOMAIN events : IdKeys \subseteq DOMAIN events[i]

\* data_storage.py:183-184 : the file after the write.  failAt = -1 is a write
\* that succeeds; failAt = k >= 0 is a write that fails after open() has
\* truncated the file and the text of k records has reached it
Written(combined, failAt) ==
    IF failAt = -1
      THEN [status |-> "ok", recs |-> combined]
      ELSE [status |-> "corrupt", recs |-> SubSeq(combined, 1, failAt)]

NoWindow == [given |-> FALSE, start |-> NoDate, end |-> NoDate]

Window(s, e) == [given |-> TRUE, start |-> s, end |-> e]

March(d) == MkDate(2025, 3, d)

Windows == {Window(March(1), March(4)), Window(March(5), March(5))}

\* get_city_events without the os.path.exists test and without the try
GetOutcomeNoExists(st, window) ==
    IF window.given
      THEN [outcome |-> "TypeError", result |-> <<>>]
    ELSE IF st.status = "ok"
      THEN [outcome |-> "ok", result |-> st.recs]
    ELSE IF st.status = "absent"
      THEN [outcome |-> "FileNotFoundError", result |-> <<>>]
      ELSE [outcome |-> "JSONDecodeError", result |-> <<>>]

\* data_storage.py:188-211 : the function takes (country_code, city_name)
\* only, so a call that passes start_date/end_date raises TypeError before
\* the body runs
GetOutcome(st, window) ==
    IF window.given
      THEN [outcome |-> "TypeError", result |-> <<>>]
    ELSE IF st.status = "ok"
      THEN [outcome |-> "ok", result |-> st.recs]
      ELSE [outcome |-> "ok", result |-> <<>>]

(***************************************************************************)
(* State and actions                                                       *)
(***************************************************************************)
NoOp == [name |-> "init", events |-> <<>>, window |-> NoWindow,
         outcome |-> "none", result |-> <<>>, ids |-> <<>>, again |-> FALSE]

(***************************************************************************)
(* Arguments of do_date_ranges_overlap: date objects and strings           *)
(***************************************************************************)
DNA == <<"N", "/", "A">>

DateInputs ==
    {DateObj(March(d)) : d \in 1..MaxDay}
      \cup {Str(D0503), Str(DNA), Str(<<>>)}

BoolStr(b) == IF b THEN "True" ELSE "False"

NoOverlap == [phase |-> "off"]

NoValidate == [phase |-> "off"]

NoRun == [phase |-> "off"]

NoGeo == [phase |-> "off"]

NoCalls == [phase |-> "off"]

Init ==
    /\ store = AbsentStore
    /\ calls = NoCalls
    /\ clock = 0
    /\ op = NoOp
    /\ ov = NoOverlap
    /\ vd = NoValidate
    /\ run = NoRun
    /\ geo = NoGeo

SaveOp(events, outcome, ids) ==
    [name |-> "save", events |-> events, window |-> NoWindow,
     outcome |-> outcome, result |-> <<>>, ids |-> ids,
     again |-> op.name = "save" /\ op.events = events /\ op.outcome # "OSError"]

\* one call save_city_events(events, CountryCode, CityName): data_storage.py:130-186
Save ==
    \E events \in Batches :
      LET combined == IF ReachesWrite(events)
                        THEN Combine(LoadExisting(store), events, clock, CountryCode)
                        ELSE <<>>
      IN  /\ clock < MaxClock
          /\ clock' = clock + 1
          /\ UNCHANGED <<ov, vd, run, geo, calls>>
          /\ IF events = <<>>
               THEN store' = store /\ op' = SaveOp(events, "none", <<>>)
             ELSE IF ~ReachesWrite(events)
               THEN store' = store /\ op' = SaveOp(events, "KeyError", <<>>)
             ELSE \E failAt \in -1..Len(combined) :
                    /\ store' = Written(combined, failAt)
                    /\ op' = SaveOp(events,
                                    IF failAt = -1 THEN "ok" ELSE "OSError",
                                    [i \in DOMAIN events |-> EventId(events[i])])

\* one call get_city_events(CountryCode, CityName [, start_date, end_date])
Get ==
    \E window \in {NoWindow} \cup Windows :
      LET r == GetOutcome(store, window)
      IN  /\ op' = [name |-> "get", events |-> <<>>, window |-> window,
                    outcome |-> r.outcome, result |-> r.result, ids |-> <<>>,
                    again |-> FALSE]
          /\ UNCHANGED <<store, clock, ov, vd, run, geo, calls>>

\* geo_tag_events as app.py:391 uses it: the events the geocoder places within
\* reach of the city, with their coordinates
GeoTagged(events, keep) ==
    LET tagged == [i \in DOMAIN events |->
                     Put(Put(events[i], "latitude", 19), "longitude", 72)]
        idx == SelectSeq([i \in DOMAIN events |-> i], LAMBDA i : keep[i])
    IN  [j \in DOMAIN idx |-> tagged[idx[j]]]

AppOp(events, window, outcome, result) ==
    [name |-> "app", events |-> events, window |-> window,
     outcome |-> outcome, result |-> result, ids |-> <<>>, again |-> FALSE]

\* one run of the app.py script.  The sidebar looks up the saved events of
\* the window (app.py:324); with the search button pressed the search section
\* (app.py:349-431) collects the events found, geo-tags them, saves them and
\* reads the store again.  all_events are the events find_traffic_events
\* returned over the categories, keep is the verdict of geo_tag_events.
AppRun ==
    \E window \in Windows, search_button \in BOOLEAN, all_events \in FoundLists :
      \E keep \in [DOMAIN all_events -> BOOLEAN] :
        LET sidebar == GetOutcome(store, window)
            events_for_storage ==
                [i \in DOMAIN all_events |->
                   StorageReady(all_events[i], CityName, CountryCode)]
            geotagged == IF search_button
                           THEN GeoTagged(events_for_storage, keep) ELSE <<>>
        IN  /\ UNCHANGED <<ov, vd, run, geo, calls>>
            /\ IF sidebar.outcome # "ok"
                 THEN \* the exception of app.py:324 ends the script run
                      /\ UNCHANGED <<store, clock>>
                      /\ op' = AppOp(geotagged, window, sidebar.outcome, <<>>)
               ELSE IF ~search_button \/ ~ReachesWrite(geotagged)
                 THEN \* nothing to save, or save raises and app.py:420 catches
                      /\ UNCHANGED <<store, clock>>
                      /\ op' = AppOp(geotagged, window, "ok",
                                     GetOutcome(store, window).result)
               ELSE \E failAt \in -1..(Len(LoadExisting(store)) + Len(geotagged)) :
                      LET combined == Combine(LoadExisting(store), geotagged,
                                              clock, CountryCode)
                          written == Written(combined, failAt)
                      IN  /\ clock < MaxClock
                          /\ failAt <= Len(combined)
                          /\ store' = written
                          /\ clock' = clock + 1
                          /\ op' = AppOp(geotagged, window, "ok",
                                         GetOutcome(written, window).result)

Next == Save \/ Get

Spec == Init /\ [][Next]_vars

\* the store operations together with runs of the app script
NextApp == Save \/ Get \/ AppRun

SpecApp == Init /\ [][NextApp]_vars

(***************************************************************************)
(* do_date_ranges_overlap applied to two ranges, in both orders            *)
(***************************************************************************)
InitOverlap ==
    /\ store = AbsentStore
    /\ calls = NoCalls
    /\ clock = 0
    /\ op = NoOp
    /\ vd = NoValidate
    /\ run = NoRun
    /\ geo = NoGeo
    /\ ov \in [phase : {"args"}, aStart : DateInputs, aEnd : DateInputs,
               bStart : DateInputs, bEnd : DateInputs,
               ab : {"pending"}, ba : {"pending"}]

\* do_date_ranges_overlap(aStart, aEnd, bStart, bEnd)
OverlapAB ==
    /\ ov.phase = "args"
    /\ ov.ab = "pending"
    /\ ov' = [ov EXCEPT !.ab = BoolStr(do_date_ranges_overlap(
                                   ov.aStart, ov.aEnd, ov.bStart, ov.bEnd))]
    /\ UNCHANGED <<store, clock, op, vd, run, geo, calls>>

\* do_date_ranges_overlap(bStart, bEnd, aStart, aEnd)
OverlapBA ==
    /\ ov.phase = "args"
    /\ ov.ba = "pending"
    /\ ov' = [ov EXCEPT !.ba = BoolStr(do_date_ranges_overlap(
                                   ov.bStart, ov.bEnd, ov.aStart, ov.aEnd))]
    /\ UNCHANGED <<store, clock, op, vd, run, geo, calls>>

NextOverlap == OverlapAB \/ OverlapBA

SpecOverlap == InitOverlap /\ [][NextOverlap]_vars

(***************************************************************************)
(* The validator applied to one raw candidate and one search window        *)
(***************************************************************************)
\* marks a key the candidate does not have
Missing == <<"<missing>">>

Opt(event, k, v) == IF v = Missing THEN event ELSE Put(event, k, v)

\* a candidate as the discovery service returns it (event_finder.py:112-125)
RawEvent(sd, ed, st, et) ==
    Opt(Opt(Opt(Opt([ event_type |-> TGig, location |-> LMgRd,
                      traffic_impact |-> "low", source |-> SrcA ],
                    "start_date", sd), "end_date", ed),
            "start_time", st), "end_time", et)

DayTexts == {format_date(March(d)) : d \in 1..MaxDay}

DIso0203 == <<"2025", "-", "03", "-", "02">>

T1830 == <<"18", ":", "30">>

T10PM == <<"10", ":", "00", " ", "PM">>

\* texts that hold no date and no time
BadTexts == {<<>>, DNA, TGig, TPhone}

DateFields == DayTexts \cup {DIso0203, Missing} \cup BadTexts

TimeFields == {T1830, T10PM, Missing} \cup BadTexts

Candidates ==
    {RawEvent(sd, ed, st, et) :
       sd \in DateFields, ed \in DateFields, st \in TimeFields, et \in TimeFields}

SearchSpans == Windows \cup {Window(March(2), March(3))}

\* the search window as find_traffic_events passes it on (strings) and as a
\* caller with date objects passes it
SearchWindows ==
    {<<Str(format_date(w.start)), Str(format_date(w.end))>> : w \in SearchSpans}
      \cup {<<DateObj(w.start), DateObj(w.end)>> : w \in SearchSpans}
      \cup {<<Str(DNA), Str(D0503)>>}

Pending == [raised |-> "pending", event |-> EmptyDict]

InitValidate ==
    /\ store = AbsentStore
    /\ calls = NoCalls
    /\ clock = 0
    /\ op = NoOp
    /\ ov = NoOverlap
    /\ run = NoRun
    /\ geo = NoGeo
    /\ \E event \in Candidates, w \in SearchWindows :
         vd = [phase |-> "raw", event |-> event,
               search_start_date |-> w[1], search_end_date |-> w[2],
               dates |-> Pending, verdict |-> Pending,
               after |-> event, twice |-> Pending]

\* validate_event_dates(event)
CallValidateEventDates ==
    /\ vd.phase = "raw"
    /\ vd.dates = Pending
    /\ vd' = [vd EXCEPT !.dates = validate_event_dates(vd.event),
                        !.after = event_after_validate(vd.event)]
    /\ UNCHANGED <<store, clock, op, ov, run, geo, calls>>

\* validate_event_date(event, search_start_date, search_end_date)
CallValidateEventDate ==
    /\ vd.phase = "raw"
    /\ vd.verdict = Pending
    /\ vd' = [vd EXCEPT !.verdict = validate_event_date(
                            vd.event, vd.search_start_date, vd.search_end_date)]
    /\ UNCHANGED <<store, clock, op, ov, run, geo, calls>>

NextValidate == CallValidateEventDates \/ CallValidateEventDate

SpecValidate == InitValidate /\ [][NextValidate]_vars

(***************************************************************************)
(* validate_event_dates applied to a candidate and then to its own result, *)
(* as find_traffic_events does: event_finder.py:264 normalizes a candidate *)
(* and event_finder.py:265 passes the result to validate_event_date, which *)
(* normalizes it again at line 36.                                         *)
(*                                                                         *)
(* vd.after   the dictionary that was passed, after the first call         *)
(* vd.twice   what the second call returned                                *)
(***************************************************************************)
InitNormalize ==
    /\ store = AbsentStore
    /\ calls = NoCalls
    /\ clock = 0
    /\ op = NoOp
    /\ ov = NoOverlap
    /\ run = NoRun
    /\ geo = NoGeo
    /\ \E event \in Candidates :
         vd = [phase |-> "raw", event |-> event,
               search_start_date |-> Str(D0503), search_end_date |-> Str(D0503),
               dates |-> Pending, verdict |-> Pending,
               after |-> event, twice |-> Pending]

\* validate_event_dates(event) for the event the first call returned
CallValidateEventDatesAgain ==
    /\ vd.phase = "raw"
    /\ vd.dates # Pending /\ vd.dates.raised = ""
    /\ vd.twice = Pending
    /\ vd' = [vd EXCEPT !.twice = validate_event_dates(vd.dates.event)]
    /\ UNCHANGED <<store, clock, op, ov, run, geo, calls>>

NextNormalize == CallValidateEventDates \/ CallValidateEventDatesAgain

SpecNormalize == InitNormalize /\ [][NextNormalize]_vars

(***************************************************************************)
(* Geo-tagging: utils/geo_tagger.py                                        *)
(*                                                                         *)
(* A latitude is counted in steps of 0.45 degrees (50 km along a meridian),*)
(* a longitude in the same steps; None stands for Python's None.  The      *)
(* places of the model lie on the prime meridian or on the meridian        *)
(* CityLon.                                                                *)
(***************************************************************************)
None == 0 - 999

CityLon == 160

max_distance_km == 100

NoCoordinates == <<None, None>>

\* the answers of the geocoding service: a failed request, an answer with
\* another status, an answer without latLng, an answer with latLng
GeocodeAnswers ==
    {[kind |-> k, lat |-> None, lng |-> None] : k \in {"timeout", "status", "empty"}}
      \cup {[kind |-> "latLng", lat |-> la, lng |-> CityLon] : la \in {0, 1, 2, 4}}
      \cup {[kind |-> "latLng", lat |-> la, lng |-> 0] : la \in {0, 1, 3}}

\* no request is sent for an event without a location (geo_tagger.py:26)
NotAsked == [kind |-> "none", lat |-> None, lng |-> None]

\* geo_tagger.py:135-155 : one request, and (None, None) unless the answer
\* has status 200 and holds latLng
fetch_lat_long(answer) ==
    IF answer.kind = "latLng" THEN <<answer.lat, answer.lng>> ELSE NoCoordinates

\* Python's "not x" on a coordinate: None and 0.0 are both false
Falsy(x) == x = None \/ x = 0

\* geo_tagger.py:37
LacksCoordinates(coordinates) == Falsy(coordinates[1]) \/ Falsy(coordinates[2])

\* geo_tagger.py:57-74 for two places on one meridian: the arc between them,
\* 50 km for each step of latitude
haversine_distance(lat1, lon1, lat2, lon2) ==
    50 * (IF lat1 < lat2 THEN lat2 - lat1 ELSE lat1 - lat2)

\* geo_tagger.py:26
HasLocation(event) == "location" \in DOMAIN event /\ event["location"] # <<>>

\* geo_tagger.py:41-50 : the distance filter, applied when the city has
\* coordinates
TooFar(coordinates, city_coordinates, max_km) ==
    /\ ~Falsy(city_coordinates[1]) /\ ~Falsy(city_coordinates[2])
    /\ haversine_distance(city_coordinates[1], city_coordinates[2],
                          coordinates[1], coordinates[2]) > max_km

\* geo_tagger.py:25-53 : the event is appended to tagged_events
IsTagged(event, coordinates, city_coordinates, max_km) ==
    /\ HasLocation(event)
    /\ ~LacksCoordinates(coordinates)
    /\ ~TooFar(coordinates, city_coordinates, max_km)

\* geo_tagger.py:25-47 : the copy that is appended
TaggedCopy(event, coordinates, city_coordinates) ==
    LET located == Put(Put(event, "latitude", coordinates[1]),
                       "longitude", coordinates[2])
    IN  IF ~Falsy(city_coordinates[1]) /\ ~Falsy(city_coordinates[2])
          THEN Put(located, "distance_from_city_km",
                   haversine_distance(city_coordinates[1], city_coordinates[2],
                                      coordinates[1], coordinates[2]))
          ELSE located

\* event.get(k, "")
GetOrEmpty(event, k) == IF k \in DOMAIN event THEN event[k] ELSE <<>>

\* ", ".join(parts)
RECURSIVE JoinParts(_)
JoinParts(parts) ==
    IF Len(parts) = 0 THEN <<>>
    ELSE IF Len(parts) = 1 THEN parts[1]
    ELSE parts[1] \o <<",", " ">> \o JoinParts(Tail(parts))

\* geo_tagger.py:76-79 with every part kept, empty or not
format_full_location_all(location, city, country_code) ==
    JoinParts(<<location, city, country_code>>)

\* geo_tagger.py:76-79
format_full_location(location, city, country_code) ==
    JoinParts(SelectSeq(<<location, city, country_code>>, LAMBDA p : p # <<>>))

\* geo_tagger.py:27-31 : the request for events[index + 1]; city and
\* country_code are read from the event
EventLookup(index, event) ==
    [row_idx |-> index,
     address |-> format_full_location(event["location"],
                                      GetOrEmpty(event, "city_name"),
                                      GetOrEmpty(event, "country_code")),
     city |-> GetOrEmpty(event, "city_name"),
     country_code |-> GetOrEmpty(event, "country_code")]

\* geo_tagger.py:22-31 : the requests of one call in the order they are sent,
\* the request for the city (line 22) first
geo_lookups(events, city, country_code) ==
    LET idx == SelectSeq([i \in DOMAIN events |-> i],
                         LAMBDA i : HasLocation(events[i]))
    IN  <<[row_idx |-> 1, address |-> city \o <<",", " ">> \o country_code,
           city |-> city, country_code |-> country_code]>>
          \o [j \in DOMAIN idx |-> EventLookup(idx[j] - 1, events[idx[j]])]

\* geo_tagger.py:25 with event_copy = event : the writes of lines 33-47
\* land in the caller's dictionary
EventAfterPassShared(event, coordinates, city_coordinates) ==
    IF ~HasLocation(event) THEN event
    ELSE IF LacksCoordinates(coordinates)
      THEN Put(Put(event, "latitude", coordinates[1]), "longitude", coordinates[2])
    ELSE TaggedCopy(event, coordinates, city_coordinates)

\* geo_tagger.py:25 : event_copy is a new dictionary, so the writes of
\* lines 33-47 leave the caller's dictionary as it was
EventAfterPass(event, coordinates, city_coordinates) == event

\* geo_tagger.py:8-55 : answers[i] is the answer to the lookup of events[i],
\* city_answer the answer to the lookup of the city
geo_tag_events(events, city_answer, answers, max_km) ==
    LET city_coordinates == fetch_lat_long(city_answer)
        idx == SelectSeq([i \in DOMAIN events |-> i],
                         LAMBDA i : IsTagged(events[i], fetch_lat_long(answers[i]),
                                             city_coordinates, max_km))
    IN  [j \in DOMAIN idx |->
           TaggedCopy(events[idx[j]], fetch_lat_long(answers[idx[j]]),
                      city_coordinates)]

(***************************************************************************)
(* geo_tag_events applied to one list of events                            *)
(***************************************************************************)
EvPNoLoc == Put(EvP, "location", <<>>)

\* VEv names no city and no country
GeoEvents == {EvP, EvPNoise, EvPNoLoc, VEv}

InitGeo ==
    /\ store = AbsentStore
    /\ calls = NoCalls
    /\ clock = 0
    /\ op = NoOp
    /\ ov = NoOverlap
    /\ vd = NoValidate
    /\ run = NoRun
    /\ \E events \in SeqsUpTo(GeoEvents, MaxBatch), city_answer \in GeocodeAnswers :
         \E answers \in [DOMAIN events -> GeocodeAnswers \cup {NotAsked}] :
           /\ \A i \in DOMAIN events :
                answers[i] = NotAsked <=> ~HasLocation(events[i])
           /\ geo = [phase |-> "args", given |-> events, events |-> events,
                     city_answer |-> city_answer, answers |-> answers,
                     called |-> FALSE, lookups |-> <<>>, tagged_events |-> <<>>]

\* geo_tag_events(events, CityName, CountryCode)
CallGeoTagEvents ==
    /\ geo.phase = "args"
    /\ ~geo.called
    /\ geo' = [geo EXCEPT !.called = TRUE,
                          !.events = [i \in DOMAIN geo.events |->
                                        EventAfterPass(geo.events[i],
                                                       fetch_lat_long(geo.answers[i]),
                                                       fetch_lat_long(geo.city_answer))],
                          !.lookups = geo_lookups(geo.events, CityName, CountryCode),
                          !.tagged_events = geo_tag_events(geo.events, geo.city_answer,
                                                           geo.answers, max_distance_km)]
    /\ UNCHANGED <<store, clock, op, ov, vd, run, calls>>

NextGeo == CallGeoTagEvents

SpecGeo == InitGeo /\ [][NextGeo]_vars

(***************************************************************************)
(* The search section of app.py (lines 349-421) with find_traffic_events   *)
(* (event_finder.py:159-268): one discovery request per category, each     *)
(* pass of the retry loop a step.                                          *)
(*                                                                         *)
(* run.cred      the OpenAI API key of the session: missing, invalid, valid*)
(* run.cat       the category the loop of app.py:359 is at                 *)
(* run.attempt   the attempt counter of event_finder.py:206                *)
(* run.requests  the requests sent to the discovery service so far         *)
(* run.log       for each finished category how its call ended, after how  *)
(*               many attempts, and the events it returned                 *)
(* run.last      the last answer of the service and what became of it      *)
(* run.error     the exception that ended the section, "" when none did    *)
(***************************************************************************)
max_retries == 2

\* app.py:357
event_types == <<"concert/ live shows/ sport event", "road closure/ construction",
                 "public protest/ demonstration/ gathering">>

RawIn     == RawEvent(format_date(March(2)), Missing, T1830, Missing)
RawNoDate == RawEvent(DNA, format_date(March(2)), Missing, Missing)
RawLate   == RawEvent(format_date(March(5)), Missing, Missing, T10PM)
RawPhone  == RawEvent(format_date(March(2)), Missing, TPhone, Missing)

\* the lists of candidates the service answers with in this model
RawBatches ==
    { <<>>, <<RawIn>>, <<RawLate, RawIn>>, <<RawIn, RawNoDate, RawIn>>,
      <<RawPhone>>, <<RawIn, RawPhone>> }

\* what one call of client.responses.create comes to: an exception with an
\* authentication message, another exception (a timeout), output text that
\* is not JSON, or a JSON list of events.  A key the service does not accept
\* is refused on every request.
DiscoveryAnswers(cred) ==
    IF cred = "invalid"
      THEN {[kind |-> "auth", events |-> <<>>]}
      ELSE {[kind |-> k, events |-> <<>>] : k \in {"timeout", "malformed"}}
             \cup {[kind |-> "events", events |-> raw] : raw \in RawBatches}

\* event_finder.py:264-268 : the exception of a candidate in line 264 leaves
\* the function; start_date and end_date are the strings of lines 174-178
ValidateBatch(events, start_date, end_date) ==
    IF \E i \in DOMAIN events : validate_event_time(events[i]).raised # ""
      THEN [raised |-> "OverflowError", events |-> <<>>]
      ELSE LET timed == [i \in DOMAIN events |-> validate_event_time(events[i]).event]
               dated == [i \in DOMAIN events |->
                           validate_event_date(timed[i], Str(start_date),
                                               Str(end_date)).event]
           IN  [raised |-> "", events |-> SelectSeq(dated, LAMBDA e : e # EmptyDict)]

NoAnswer == [kind |-> "none", raw |-> <<>>, raised |-> "", result |-> <<>>]

InitFind ==
    /\ store = AbsentStore
    /\ calls = NoCalls
    /\ clock = 0
    /\ op = NoOp
    /\ ov = NoOverlap
    /\ vd = NoValidate
    /\ geo = NoGeo
    /\ \E cred \in {"missing", "invalid", "valid"}, w \in Windows :
         run = [phase |-> "start", cred |-> cred,
                start_date |-> w.start, end_date |-> w.end,
                cat |-> 0, attempt |-> 0, requests |-> 0,
                all_events |-> <<>>, log |-> <<>>, last |-> NoAnswer,
                error |-> "", geo_input |-> <<>>, geotagged |-> <<>>,
                saved |-> "not called"]

\* app.py:349-358 : without a key nothing is searched
Begin ==
    /\ run.phase = "start"
    /\ run' = IF run.cred = "missing"
                THEN [run EXCEPT !.phase = "done", !.error = "no key"]
                ELSE [run EXCEPT !.phase = "request", !.cat = 1]
    /\ UNCHANGED <<store, clock, op, ov, vd, geo, calls>>

\* a category whose request failed ending the search
CategoryDoneOrAbort(r, outcome, attempts, events) ==
    IF outcome = "timeout"
      THEN [r EXCEPT !.phase = "done", !.error = "timeout"]
      ELSE LET logged == [r EXCEPT !.log = Append(@, [outcome |-> outcome,
                                                      attempts |-> attempts,
                                                      events |-> events]),
                                   !.all_events = @ \o events,
                                   !.attempt = 0]
           IN  IF r.cat < Len(event_types)
                 THEN [logged EXCEPT !.cat = @ + 1]
                 ELSE [logged EXCEPT !.phase = "collected"]

\* app.py:359-362 : the call of the category has returned events
CategoryDone(r, outcome, attempts, events) ==
    LET logged == [r EXCEPT !.log = Append(@, [outcome |-> outcome,
                                               attempts |-> attempts,
                                               events |-> events]),
                            !.all_events = @ \o events,
                            !.attempt = 0]
    IN  IF r.cat < Len(event_types)
          THEN [logged EXCEPT !.cat = @ + 1]
          ELSE [logged EXCEPT !.phase = "collected"]

\* a response that is not JSON never retried
RetriesLeftNever(attempt) == FALSE

\* event_finder.py:243 : a response that is not JSON is retried while
\* attempts remain
RetriesLeft(attempt) == attempt < max_retries

\* one pass of the retry loop of find_traffic_events (event_finder.py:209-262)
\* and, when the loop is left, the rest of the call (lines 264-268)
Attempt ==
    /\ run.phase = "request"
    /\ run.attempt < max_retries
    /\ \E answer \in DiscoveryAnswers(run.cred) :
       \E checked \in {ValidateBatch(answer.events, format_date(run.start_date),
                                     format_date(run.end_date))} :
         LET attempt == run.attempt + 1
             sent    == [run EXCEPT !.attempt = attempt, !.requests = @ + 1]
             Last(raised, result) ==
                 [kind |-> answer.kind, raw |-> answer.events,
                  raised |-> raised, result |-> result]
         IN  run' =
               IF answer.kind \in {"auth", "timeout"}
                 THEN \* lines 251-262 : the exception is shown, the call returns []
                      CategoryDone([sent EXCEPT !.last = Last("", <<>>)],
                                   answer.kind, attempt, <<>>)
               ELSE IF answer.kind = "malformed"
                 THEN IF RetriesLeft(attempt)
                        THEN \* lines 241-245 : continue
                             [sent EXCEPT !.last = Last("", <<>>)]
                        ELSE \* lines 246-249 : events = [], break
                             CategoryDone([sent EXCEPT !.last = Last("", <<>>)],
                                          "malformed", attempt, <<>>)
               ELSE IF checked.raised # ""
                 THEN \* the exception leaves the call and the loop of app.py:359
                      \* and is caught at app.py:419
                      [sent EXCEPT !.phase = "done", !.error = checked.raised,
                                   !.last = Last(checked.raised, <<>>)]
                 ELSE CategoryDone([sent EXCEPT !.last = Last("", checked.events)],
                                   "events", attempt, checked.events)
    /\ UNCHANGED <<store, clock, op, ov, vd, geo, calls>>

\* the answers of the geocoding service in a run of the search section
RunAnswers ==
    {a \in GeocodeAnswers : a.kind = "timeout" \/ (a.lat = 1 /\ a.lng = CityLon)}

\* app.py:364-421 : the events found are made ready for storage, geo-tagged
\* and saved
Finish ==
    /\ run.phase = "collected"
    /\ \E city_answer \in RunAnswers, answers \in [DOMAIN run.all_events -> RunAnswers] :
         LET events_for_storage ==
                 [i \in DOMAIN run.all_events |->
                    StorageReady(run.all_events[i], CityName, CountryCode)]
             geotagged == geo_tag_events(events_for_storage, city_answer, answers,
                                         max_distance_km)
         IN  IF run.all_events = <<>>
               THEN /\ run' = [run EXCEPT !.phase = "done"]
                    /\ UNCHANGED <<store, clock>>
             ELSE IF geotagged = <<>>
               THEN \* data_storage.py:144 : nothing to save
                    /\ run' = [run EXCEPT !.phase = "done",
                                          !.geo_input = events_for_storage,
                                          !.saved = "none"]
                    /\ UNCHANGED <<store, clock>>
             ELSE IF ~ReachesWrite(geotagged)
               THEN \* data_storage.py:173 raises, app.py:419 catches
                    /\ run' = [run EXCEPT !.phase = "done", !.error = "KeyError",
                                          !.geo_input = events_for_storage,
                                          !.geotagged = geotagged,
                                          !.saved = "KeyError"]
                    /\ UNCHANGED <<store, clock>>
             ELSE /\ store' = Written(Combine(LoadExisting(store), geotagged,
                                              clock, CountryCode), 0 - 1)
                  /\ clock' = clock + 1
                  /\ run' = [run EXCEPT !.phase = "done",
                                        !.geo_input = events_for_storage,
                                        !.geotagged = geotagged,
                                        !.saved = "ok"]
    /\ UNCHANGED <<op, ov, vd, geo, calls>>

NextFind == Begin \/ Attempt \/ Finish

SpecFind == InitFind /\ [][NextFind]_vars

\* the search section runs on: nothing but its own steps can hold it up
SpecFindFair == SpecFind /\ WF_vars(NextFind)

(***************************************************************************)
(* Two calls of save_city_events for one city at the same time (two        *)
(* sessions of the app save to the same file).  A call touches the file    *)
(* three times: it reads it (data_storage.py:154-162), it opens it for     *)
(* writing, which empties it (line 183), and it writes the combined list   *)
(* (line 184).  Nothing locks the file in between.                         *)
(*                                                                         *)
(* calls.pc        where each call is: start, read, open, done             *)
(* calls.events    the list each call was given                            *)
(* calls.existing  what each call read as existing_events                  *)
(* calls.combined  the combined_events of each call                        *)
(* calls.outcome   how each call ended                                     *)
(* calls.readAt    how many times the file had been opened for writing     *)
(*                 when the call read it                                   *)
(* calls.opens     how many times the file has been opened for writing     *)
(* calls.dumps     the calls in the order in which their writes completed  *)
(* calls.found     the records of the file before the two calls            *)
(***************************************************************************)
Callers == {1, 2}

\* the lists the calls are given: of EvA, the same event at another place,
\* and an event without a date
ConcBatches ==
    SeqsUpTo({EvA, Put(EvA, "location", <<"N", "H", "8">>), EvP}, MaxBatch)

\* the file before the two calls: absent, or written by an earlier save
FoundStores == {AbsentStore, Written(Combine(<<>>, <<EvA>>, 0, CountryCode), 0 - 1)}

\* data_storage.py:183 : open(file_path, 'w') leaves an empty file, which
\* json.load does not parse
Truncated == [status |-> "corrupt", recs |-> <<>>]

\* the file read again at the moment of the write
ExistingReread(existing_events, st) == LoadExisting(st)

\* data_storage.py:165-180 : the list is combined from what was read at
\* lines 154-162, whatever the file holds by now
ExistingAtWrite(existing_events, st) == existing_events

InitConc ==
    /\ op = NoOp
    /\ ov = NoOverlap
    /\ vd = NoValidate
    /\ run = NoRun
    /\ geo = NoGeo
    /\ store \in FoundStores
    /\ clock = 1
    /\ \E first \in ConcBatches, second \in ConcBatches :
         calls = [phase |-> "on",
                  pc |-> [p \in Callers |-> "start"],
                  events |-> <<first, second>>,
                  existing |-> [p \in Callers |-> <<>>],
                  combined |-> [p \in Callers |-> <<>>],
                  outcome |-> [p \in Callers |-> "running"],
                  readAt |-> [p \in Callers |-> 0 - 1],
                  opens |-> 0, dumps |-> <<>>,
                  found |-> LoadExisting(store)]

\* data_storage.py:144-162 : an empty list returns at once, otherwise the
\* file is read
ReadExisting ==
    \E p \in Callers :
      /\ calls.phase = "on"
      /\ calls.pc[p] = "start"
      /\ calls' = IF calls.events[p] = <<>>
                    THEN [calls EXCEPT !.pc[p] = "done", !.outcome[p] = "none"]
                    ELSE [calls EXCEPT !.pc[p] = "read",
                                       !.existing[p] = LoadExisting(store),
                                       !.readAt[p] = calls.opens]
      /\ UNCHANGED <<store, clock, op, ov, vd, run, geo>>

\* data_storage.py:165-183 : the combined list is built, which raises
\* KeyError for an event without a date, and the file is opened for writing
OpenForWrite ==
    \E p \in Callers :
      /\ calls.phase = "on"
      /\ calls.pc[p] = "read"
      /\ IF ~ReachesWrite(calls.events[p])
           THEN /\ calls' = [calls EXCEPT !.pc[p] = "done",
                                          !.outcome[p] = "KeyError"]
                /\ UNCHANGED <<store, clock>>
           ELSE /\ calls' = [calls EXCEPT
                               !.pc[p] = "open",
                               !.combined[p] =
                                   Combine(ExistingAtWrite(calls.existing[p], store),
                                           calls.events[p], clock, CountryCode),
                               !.opens = @ + 1]
                /\ store' = Truncated
                /\ clock' = clock + 1
      /\ UNCHANGED <<op, ov, vd, run, geo>>

\* data_storage.py:184-186 : json.dump writes the combined list from the
\* start of the file.  The write may fail part way.  When the other call
\* has written since this call opened the file, this text lies over the
\* other: the file holds this list, or this list followed by the rest of a
\* longer text, which does not parse.
Dump ==
    \E p \in Callers :
      /\ calls.phase = "on"
      /\ calls.pc[p] = "open"
      /\ \E failAt \in (0 - 1)..Len(calls.combined[p]),
            clean \in IF store = Truncated THEN {TRUE} ELSE {TRUE, FALSE} :
           /\ store' = IF clean THEN Written(calls.combined[p], failAt)
                        ELSE [status |-> "corrupt", recs |-> calls.combined[p]]
           /\ calls' = [calls EXCEPT
                          !.pc[p] = "done",
                          !.outcome[p] = IF failAt = 0 - 1 THEN "ok" ELSE "OSError",
                          !.dumps = IF failAt = 0 - 1 THEN Append(@, p) ELSE @]
      /\ UNCHANGED <<clock, op, ov, vd, run, geo>>

NextConc == ReadExisting \/ OpenForWrite \/ Dump

SpecConc == InitConc /\ [][NextConc]_vars

(***************************************************************************)
(* The identity the specification describes (section 4.4): the cleaned     *)
(* event_type, location and start_date joined with '_'                     *)
(***************************************************************************)
Punctuation == {" ", "-", "/", "!", ".", ",", ":"}

Clean(t) ==
    LET lowered == Lower(t)
        unders  == [i \in DOMAIN lowered |->
                      IF lowered[i] = " " THEN "_" ELSE lowered[i]]
        IsWord(c) == c \notin Punctuation
    IN  SelectSeq(unders, IsWord)

compute_event_id(event) ==
    Clean(event.event_type) \o <<"_">> \o Clean(event.location)
      \o <<"_">> \o Clean(event.start_date)

\* the retrieval the specification describes (section 4.4, load)
LoadWindow(st, window) ==
    LET InWindow(r) ==
          do_date_ranges_overlap(Str(r.start_date), Str(r.end_date),
                                 DateObj(window.start), DateObj(window.end))
    IN  IF window.given THEN SelectSeq(LoadExisting(st), InWindow)
        ELSE LoadExisting(st)

(***************************************************************************)
(* Claims                                                                  *)
(***************************************************************************)
SaveStep == op'.name = "save" /\ clock' = clock + 1

Returned(o) == o.outcome # "OSError"

\* C1: a save call that directly follows a save call with the same list of
\* events leaves the store exactly as the first call left it (neither call
\* failing in the write), whatever the store held before the first call.
C1_SaveIdempotent ==
    [][ ( /\ op.name = "save" /\ Returned(op)
          /\ SaveStep /\ op'.events = op.events /\ Returned(op') )
        => store' = store ]_vars

C1_Witness ==
    /\ op.name = "save" /\ op.again /\ op.outcome = "ok"
    /\ store.status = "ok" /\ Len(store.recs) > 0

\* C2: no two records of the store have the same id.
C2_IdsUnique ==
    \A i, j \in DOMAIN store.recs :
        i # j => store.recs[i].id # store.recs[j].id

\* C3: a save call that returns (or raises before the write) keeps every
\* record the file held before the call, unchanged and in place, and only
\* adds records after them, also when the file it found cannot be parsed.
C3_AppendOnly ==
    [][ (SaveStep /\ Returned(op')) => IsPrefix(store.recs, store'.recs) ]_vars

NoisePair(e, f) ==
    /\ {"event_type", "location", "start_date", "source", "traffic_impact"}
          \subseteq (DOMAIN e \cap DOMAIN f)
    /\ e.event_type = f.event_type
    /\ e.location = f.location
    /\ e.start_date = f.start_date
    /\ e.source # f.source
    /\ e.traffic_impact # f.traffic_impact

\* C4: when an event is saved and then an event that agrees with it on
\* event_type, location and start_date and differs in source and
\* traffic_impact is saved, both receive the same id and the second call
\* adds nothing to the store.
C4_NoiseSameId ==
    [][ ( /\ op.name = "save" /\ Returned(op) /\ Len(op.events) = 1
          /\ SaveStep /\ Returned(op') /\ Len(op'.events) = 1
          /\ NoisePair(op.events[1], op'.events[1]) )
        => ( /\ op.outcome = "ok" /\ op'.outcome = "ok"
             /\ op'.ids = op.ids
             /\ store' = store ) ]_vars

\* C5: the id a save call assigns to each event is the cleaned event_type,
\* location and start_date joined with '_'.
C5_IdIsCleanedJoin ==
    (op.name = "save" /\ op.outcome = "ok") =>
        \A i \in DOMAIN op.events :
            op.ids[i] = compute_event_id(op.events[i])

\* record r is event e as save stores it: e's fields, and an id
StoredAs(r, e) ==
    /\ DOMAIN e \subseteq DOMAIN r
    /\ "id" \in DOMAIN r
    /\ \A k \in DOMAIN e : r[k] = e[k]

\* C6: after a run of the app in which a search retained events, every
\* retained event is in the store with an id, and the lookup that ends the
\* run returned the records of those events.
C6_SearchPersists ==
    (op.name = "app" /\ op.events # <<>>) =>
        /\ op.outcome = "ok"
        /\ \A i \in DOMAIN op.events :
             \E j \in DOMAIN store.recs : StoredAs(store.recs[j], op.events[i])
        /\ \A i \in DOMAIN op.events :
             \E j \in DOMAIN op.result : StoredAs(op.result[j], op.events[i])

\* C7: get_city_events returns, with a window, exactly the stored events
\* whose span overlaps the window, and without one every stored event.
C7_GetFiltersByWindow ==
    op.name = "get" =>
        /\ op.outcome = "ok"
        /\ op.result = LoadWindow(store, op.window)

\* C8: get_city_events for a city whose store file does not exist returns
\* the empty list, raises nothing and leaves the store absent.
C8_MissingStoreEmpty ==
    [][ (op'.name = "get" /\ ~op'.window.given /\ store.status = "absent")
        => (op'.outcome = "ok" /\ op'.result = <<>> /\ store' = store) ]_vars

C8_Witness ==
    /\ op.name = "get" /\ ~op.window.given
    /\ store.status = "absent"
    /\ op.outcome = "ok" /\ op.result = <<>>
    /\ clock > 0

\* day number of a date, counting every month as 31 days
Ordinal(dt) == (dt.y * 12 + dt.m) * 31 + dt.d

AllDates(o) ==
    \A v \in {o.aStart, o.aEnd, o.bStart, o.bEnd} : AsDate(v) # NoDate

\* C9: on four dates the result is true exactly when neither range ends
\* before the other starts; ranges that share one endpoint day overlap and
\* ranges a day apart do not.
C9_OverlapFormula ==
    (ov.phase = "args" /\ ov.ab # "pending" /\ AllDates(ov)) =>
        LET aS == Ordinal(AsDate(ov.aStart))
            aE == Ordinal(AsDate(ov.aEnd))
            bS == Ordinal(AsDate(ov.bStart))
            bE == Ordinal(AsDate(ov.bEnd))
        IN  /\ (ov.ab = "True") <=> ~(aE < bS \/ aS > bE)
            /\ (aS <= aE /\ aE = bS /\ bS <= bE) => ov.ab = "True"
            /\ (aE < bS \/ bE < aS) => ov.ab = "False"

C9_Witness ==
    /\ ov.phase = "args" /\ ov.ab = "True"
    /\ ~ov.aStart.isStr /\ ~ov.aEnd.isStr /\ ~ov.bStart.isStr /\ ~ov.bEnd.isStr
    /\ DateLt(ov.aStart.date, ov.aEnd.date)
    /\ ov.aEnd.date = ov.bStart.date
    /\ DateLt(ov.bStart.date, ov.bEnd.date)

GoodDateTexts == DayTexts \cup {DIso0203}

\* the calendar date the day-first normalizer reads in a well-formed date
\* text: day-month-year, and year-day-month when the year comes first
ReadAs(t) == IF t = DIso0203 THEN MkDate(2025, 2, 3) ELSE March(TokVal(t[1]))

HasGood(event, k) == k \in DOMAIN event /\ event[k] \in GoodDateTexts

\* the field is missing, empty, a sentinel non-value or unparseable
HasBad(event, k) == k \notin DOMAIN event \/ event[k] \in BadTexts

SearchDateGood(v) == IF v.isStr THEN v.text \in GoodDateTexts ELSE v.date # NoDate

SearchDate(v) == IF v.isStr THEN ReadAs(v.text) ELSE v.date

ValidWindow ==
    /\ SearchDateGood(vd.search_start_date)
    /\ SearchDateGood(vd.search_end_date)
    /\ Ordinal(SearchDate(vd.search_start_date)) <= Ordinal(SearchDate(vd.search_end_date))

\* the days from a to b and the days of the search window have a day in common
MeetsWindow(a, b) ==
    /\ Ordinal(a) <= Ordinal(SearchDate(vd.search_end_date))
    /\ Ordinal(SearchDate(vd.search_start_date)) <= Ordinal(b)

Judged == vd.phase = "raw" /\ vd.verdict # Pending

Accepted == Judged /\ vd.verdict.event # EmptyDict

Rejected == Judged /\ vd.verdict.raised = "" /\ vd.verdict.event = EmptyDict

\* C11: a candidate whose start_date is missing, empty, a sentinel non-value
\* or unparseable is rejected (the validator returns the empty record),
\* whatever its other fields and whatever the search window.
C11_RejectsBadStart ==
    (Judged /\ HasBad(vd.event, "start_date")) => Rejected

C11_Witness ==
    /\ Rejected
    /\ "start_date" \in DOMAIN vd.event /\ vd.event["start_date"] = DNA
    /\ HasGood(vd.event, "end_date")
    /\ ValidWindow
    /\ MeetsWindow(ReadAs(vd.event["end_date"]), ReadAs(vd.event["end_date"]))

\* C12: a candidate whose normalized end_date is an earlier day than its
\* normalized start_date is rejected, also when the days between the two
\* meet the search window.
C12_RejectsBackwardRange ==
    ( /\ Judged
      /\ HasGood(vd.event, "start_date") /\ HasGood(vd.event, "end_date")
      /\ Ordinal(ReadAs(vd.event["end_date"])) < Ordinal(ReadAs(vd.event["start_date"])) )
    => Rejected

C12_Witness ==
    /\ Rejected
    /\ HasGood(vd.event, "start_date") /\ ReadAs(vd.event["start_date"]) = March(3)
    /\ HasGood(vd.event, "end_date") /\ ReadAs(vd.event["end_date"]) = March(2)
    /\ ValidWindow
    /\ MeetsWindow(March(2), March(3))
    /\ "start_time" \in DOMAIN vd.event /\ vd.event["start_time"] = T1830

\* C13: for a valid search window, a candidate with a parseable start_date
\* and an end_date not before it is accepted exactly when the days from its
\* start to its end meet the days of the window.
C13_AcceptedIffOverlap ==
    ( /\ Judged /\ ValidWindow
      /\ HasGood(vd.event, "start_date") /\ HasGood(vd.event, "end_date")
      /\ Ordinal(ReadAs(vd.event["start_date"])) <= Ordinal(ReadAs(vd.event["end_date"])) )
    => ( Accepted <=>
           MeetsWindow(ReadAs(vd.event["start_date"]), ReadAs(vd.event["end_date"])) )

\* C14: an accepted event whose end_date was missing, empty or unparseable
\* leaves the validator with end_date equal to its normalized start_date.
C14_EndDefaultsToStart ==
    (Accepted /\ HasBad(vd.event, "end_date"))
    => /\ vd.verdict.event["end_date"] = vd.verdict.event["start_date"]
       /\ vd.verdict.event["end_date"] =
            LET dt == ReadAs(vd.event["start_date"])
            IN  <<Pad2(dt.d), "-", Pad2(dt.m), "-", "2025">>

C14_Witness ==
    /\ Accepted
    /\ "end_date" \in DOMAIN vd.event /\ vd.event["end_date"] = TGig
    /\ vd.event["start_date"] = <<"02", "-", "03", "-", "2025">>
    /\ vd.verdict.event["end_date"] = <<"02", "-", "03", "-", "2025">>

\* C15: validate_event_dates returns the event with start_time "12:00 AM"
\* when the start_time it was given is missing, empty or unparseable, with
\* end_time "11:59 PM" when the end_time is, and otherwise with the time in
\* 12-hour AM/PM form.
C15_TimeDefaults ==
    (vd.phase = "raw" /\ vd.dates # Pending)
    => /\ vd.dates.raised = ""
       /\ HasBad(vd.event, "start_time")
            => vd.dates.event["start_time"] = <<"12", ":", "00", " ", "AM">>
       /\ HasBad(vd.event, "end_time")
            => vd.dates.event["end_time"] = <<"11", ":", "59", " ", "PM">>
       /\ \A k \in {"start_time", "end_time"} :
            /\ (k \in DOMAIN vd.event /\ vd.event[k] = T1830)
                 => vd.dates.event[k] = <<"06", ":", "30", " ", "PM">>
            /\ (k \in DOMAIN vd.event /\ vd.event[k] = T10PM)
                 => vd.dates.event[k] = <<"10", ":", "00", " ", "PM">>

(***************************************************************************)
(* Claims about the search section and find_traffic_events                 *)
(***************************************************************************)
Searching == run.phase \in {"start", "request", "collected", "done"}

\* the candidate is accepted when it is validated on its own
ValidAlone(event) ==
    validate_event_date(event, Str(format_date(run.start_date)),
                        Str(format_date(run.end_date))).event # EmptyDict

\* C16: when the service answers with a list of candidates the call returns,
\* and what it returns holds every candidate of the list that is valid on
\* its own: a candidate that fails in validation is dropped alone.
C16_BadCandidateDroppedAlone ==
    (Searching /\ run.last.kind = "events")
    => /\ run.last.raised = ""
       /\ \A i \in DOMAIN run.last.raw :
            ValidAlone(run.last.raw[i])
              => \E j \in DOMAIN run.last.result :
                   run.last.result[j]["start_date"] = run.last.raw[i]["start_date"]

RECURSIVE Flatten(_)
Flatten(lists) ==
    IF lists = <<>> THEN <<>> ELSE Head(lists) \o Flatten(Tail(lists))

\* C17: a category whose discovery request raises is logged with no events
\* and the loop goes on to the next category; when the loop has ended every
\* category has been run and the aggregated list is the events of the
\* categories that returned some, in the order of the categories.
C17_FailedCategoryIsolated ==
    Searching
    => /\ run.last.kind = "timeout"
            => /\ run.log # <<>>
               /\ run.log[Len(run.log)] = [outcome |-> "timeout",
                                           attempts |-> run.log[Len(run.log)].attempts,
                                           events |-> <<>>]
               /\ \/ run.phase = "request" /\ run.cat = Len(run.log) + 1
                  \/ run.phase \in {"collected", "done"} /\ Len(run.log) = Len(event_types)
       /\ run.phase = "collected"
            => /\ Len(run.log) = Len(event_types)
               /\ run.all_events = Flatten([c \in DOMAIN run.log |-> run.log[c].events])

C17_Witness ==
    /\ Searching /\ run.phase = "collected"
    /\ run.log[1].outcome = "events" /\ Len(run.log[1].events) = 1
    /\ run.log[2].outcome = "timeout"
    /\ run.log[3].outcome = "events" /\ Len(run.log[3].events) = 2
    /\ Len(run.all_events) = 3

\* C18: with a missing or invalid key at most one discovery request is sent
\* in the whole run, nothing is geo-tagged or saved, and the run ends with
\* the error shown.
C18_BadKeyStopsRun ==
    (Searching /\ run.cred \in {"missing", "invalid"})
    => /\ run.requests <= 1
       /\ run.geo_input = <<>>
       /\ run.saved = "not called"

\* C19: a category ends without result after a request that timed out or
\* raised another error than an authentication error only when its attempts
\* are used up, that is, the request is tried again first.
C19_TransientFailureRetried ==
    Searching
    => \A c \in DOMAIN run.log :
         run.log[c].outcome = "timeout" => run.log[c].attempts = max_retries

(***************************************************************************)
(* Claims about geo-tagging                                                *)
(***************************************************************************)
\* the lookup of events[i] returned coordinates
GotCoordinates(i) == geo.answers[i].kind = "latLng"

\* the city has coordinates and events[i] lies more than the maximum away
BeyondReach(i) ==
    /\ geo.city_answer.kind = "latLng"
    /\ 50 * (IF geo.answers[i].lat < geo.city_answer.lat
               THEN geo.city_answer.lat - geo.answers[i].lat
               ELSE geo.answers[i].lat - geo.city_answer.lat) > 100

\* events[i] is in the output with the coordinates its lookup returned
InOutput(i) ==
    \E j \in DOMAIN geo.tagged_events :
      /\ geo.tagged_events[j]["latitude"] = geo.answers[i].lat
      /\ geo.tagged_events[j]["longitude"] = geo.answers[i].lng
      /\ \A k \in DOMAIN geo.events[i] :
           geo.tagged_events[j][k] = geo.events[i][k]

\* C20: every event of the output of geo_tag_events has a latitude and a
\* longitude; an event whose lookup returns no coordinates is not in the
\* output, and an event with a location whose lookup returns coordinates is
\* in the output unless it lies too far from the city.
C20_OutputHasCoordinates ==
    (geo.phase = "args" /\ geo.called)
    => /\ \A j \in DOMAIN geo.tagged_events :
            /\ geo.tagged_events[j]["latitude"] # None
            /\ geo.tagged_events[j]["longitude"] # None
       /\ Len(geo.tagged_events)
            <= Cardinality({i \in DOMAIN geo.events : GotCoordinates(i)})
       /\ \A i \in DOMAIN geo.events :
            ( /\ "location" \in DOMAIN geo.events[i]
              /\ geo.events[i]["location"] # <<>>
              /\ GotCoordinates(i) /\ ~BeyondReach(i) )
            => InOutput(i)

\* the answer that places the city at latitude 0, longitude 0
Origin == [kind |-> "latLng", lat |-> 0, lng |-> 0]

\* given[i] has a location and its lookup returned a place on the prime
\* meridian, steps times 50 km from the equator
OnPrimeMeridian(i, steps) ==
    /\ "location" \in DOMAIN geo.given[i]
    /\ geo.given[i]["location"] # <<>>
    /\ geo.answers[i] = [kind |-> "latLng", lat |-> steps, lng |-> 0]

\* given[i] is in the output with its coordinates and the distance km
InOutputAt(i, km) ==
    \E j \in DOMAIN geo.tagged_events :
      /\ "distance_from_city_km" \in DOMAIN geo.tagged_events[j]
      /\ geo.tagged_events[j]["distance_from_city_km"] = km
      /\ geo.tagged_events[j]["latitude"] = geo.answers[i].lat
      /\ geo.tagged_events[j]["longitude"] = geo.answers[i].lng
      /\ \A k \in DOMAIN geo.given[i] :
           geo.tagged_events[j][k] = geo.given[i][k]

\* C21: with the city center at (0, 0) and a maximum of 100 km, an event
\* 150 km from the center is not in the output of geo_tag_events, and an
\* event 50 km from the center is in the output with distance_from_city_km
\* set to its distance.
C21_NearKeptFarDropped ==
    (geo.phase = "args" /\ geo.called /\ geo.city_answer = Origin)
    => \A i \in DOMAIN geo.given :
         /\ OnPrimeMeridian(i, 3) => ~InOutput(i)
         /\ OnPrimeMeridian(i, 1) => InOutputAt(i, 50)

\* the lookup of given[i] returned a place on the meridian of the city, more
\* than 100 km from it
FartherThanMax(i) ==
    /\ geo.answers[i].kind = "latLng"
    /\ geo.answers[i].lng = geo.city_answer.lng
    /\ \/ geo.answers[i].lat - geo.city_answer.lat > 2
       \/ geo.city_answer.lat - geo.answers[i].lat > 2

\* C22: whenever the lookup of the city returned coordinates, every event of
\* the output carries distance_from_city_km and it is at most the maximum;
\* no event farther than the maximum from the city is in the output.
C22_OutputWithinReach ==
    (geo.phase = "args" /\ geo.called /\ geo.city_answer.kind = "latLng")
    => /\ \A j \in DOMAIN geo.tagged_events :
            /\ "distance_from_city_km" \in DOMAIN geo.tagged_events[j]
            /\ geo.tagged_events[j]["distance_from_city_km"] <= 100
       /\ \A i \in DOMAIN geo.given : FartherThanMax(i) => ~InOutput(i)

\* the radius of influence in tenths of a kilometre
RadiusTenths(impact) ==
    IF impact = "high" THEN 25 ELSE IF impact = "medium" THEN 15 ELSE 10

\* C23: every event of the output of geo_tag_events carries influence_radius,
\* 2.5 for a high traffic_impact, 1.5 for medium, 1.0 for low or unknown.
C23_OutputHasInfluenceRadius ==
    (geo.phase = "args" /\ geo.called)
    => \A j \in DOMAIN geo.tagged_events :
         /\ "influence_radius" \in DOMAIN geo.tagged_events[j]
         /\ geo.tagged_events[j]["influence_radius"]
              = RadiusTenths(geo.tagged_events[j]["traffic_impact"])

\* C24: a write that fails during a save destroys or corrupts no record the
\* store held before the call: the store is readable after the call and
\* still begins with those records.
C24_FailedWriteKeepsRecords ==
    [][ (SaveStep /\ op'.outcome = "OSError" /\ store.status = "ok")
        => (store'.status = "ok" /\ IsPrefix(store.recs, store'.recs)) ]_vars

RECURSIVE AttemptsOf(_)
AttemptsOf(log) ==
    IF log = <<>> THEN 0 ELSE log[1].attempts + AttemptsOf(Tail(log))

\* what the retry loop has done so far: no category took more than two
\* requests, and one that ended on a response that is not JSON took two and
\* returned nothing
C26_Bounded ==
    /\ run.attempt <= 2
    /\ run.requests = AttemptsOf(run.log) + run.attempt
    /\ \A c \in DOMAIN run.log :
         /\ run.log[c].attempts \in {1, 2}
         /\ run.log[c].outcome = "malformed"
              => (run.log[c].attempts = 2 /\ run.log[c].events = <<>>)

\* one request of a category and what follows from its response
C26_Pass ==
    (run.phase = "request" /\ run'.requests = run.requests + 1)
    => /\ (run'.last.kind = "malformed" /\ run.attempt = 0)
            => ( /\ run'.phase = "request" /\ run'.cat = run.cat
                 /\ run'.attempt = 1 /\ run'.log = run.log )
       /\ (run'.last.kind = "malformed" /\ run.attempt = 1)
            => ( /\ Len(run'.log) = Len(run.log) + 1
                 /\ run'.log[Len(run'.log)].events = <<>>
                 /\ run'.attempt = 0 )
       /\ run'.last.kind = "events"
            => (run'.attempt = 0 \/ run'.phase = "done")

\* C26: for one category find_traffic_events sends at most 2 requests; a
\* response that is not JSON is followed by a retry, the loop stops at the
\* first response that parses, after 2 responses that are not JSON the call
\* returns the empty list, and the loop always ends.
C26_RetryLoop ==
    /\ []C26_Bounded
    /\ [][C26_Pass]_vars
    /\ <>(run.phase \in {"collected", "done"})

\* a search in which one category got JSON on its second request and
\* another gave up after two responses that were not JSON
C26_Witness ==
    /\ run.phase \in {"collected", "done"}
    /\ \E c \in DOMAIN run.log :
         run.log[c].outcome = "events" /\ run.log[c].attempts = 2
    /\ \E c \in DOMAIN run.log :
         run.log[c].outcome = "malformed" /\ run.log[c].attempts = 2

\* the fields of an event other than the two dates and the two times
OtherFields(e) == [k \in DOMAIN e \ {"start_date", "end_date", "start_time", "end_time"} |-> e[k]]

\* C28: validate_event_dates changes only start_date, end_date, start_time
\* and end_time: every other field of the event has the value it had, and no
\* other field is added or removed, in the event the call returns and in the
\* dictionary that was passed to it.
C28_OnlyDatesAndTimesChange ==
    (vd.phase = "raw" /\ vd.dates # Pending)
    => /\ OtherFields(vd.after) = OtherFields(vd.event)
       /\ vd.dates.raised = "" => OtherFields(vd.dates.event) = OtherFields(vd.event)

\* a call that rewrote the start date, added the end date and both times
C28_Witness ==
    /\ vd.phase = "raw" /\ vd.dates # Pending /\ vd.dates.raised = ""
    /\ DOMAIN vd.event = {"event_type", "location", "traffic_impact", "source",
                          "start_date"}
    /\ vd.event["start_date"] = <<"2025", "-", "03", "-", "02">>
    /\ vd.dates.event["start_date"] # vd.event["start_date"]
    /\ {"end_date", "start_time", "end_time"} \subseteq DOMAIN vd.dates.event

\* C29: normalization is idempotent: validate_event_dates applied to an
\* event it has returned returns the event as it is, so the two successive
\* normalizations of find_traffic_events give what one gives.
C29_NormalizeIdempotent ==
    (vd.phase = "raw" /\ vd.twice # Pending)
    => (vd.twice.raised = "" /\ vd.twice.event = vd.dates.event)

\* a second call on an event whose dates and times the first call rewrote
C29_Witness ==
    /\ vd.phase = "raw" /\ vd.twice # Pending
    /\ DOMAIN vd.event = {"event_type", "location", "traffic_impact", "source",
                          "start_date", "end_date", "start_time"}
    /\ vd.event["start_date"] = <<"2025", "-", "03", "-", "02">>
    /\ vd.event["end_date"] = <<"05", "-", "03", "-", "2025">>
    /\ vd.event["start_time"] = <<"18", ":", "30">>
    /\ vd.dates.event # vd.event

\* the ids of the records of a list
IdsOf(recs) == {recs[i].id : i \in DOMAIN recs}

\* the ids save_city_events gives the events of a list
IdsFor(events) ==
    {events[i]["event_type"] \o <<"_">> \o events[i]["location"]
       \o <<"_">> \o events[i]["date"] : i \in DOMAIN events}

\* both calls read the file before either opened it for writing, both
\* returned, and the file parses
BothReadFirst ==
    /\ calls.phase = "on"
    /\ \A p \in Callers : calls.outcome[p] = "ok" /\ calls.readAt[p] = 0
    /\ Len(calls.dumps) = 2
    /\ store.status = "ok"

\* C30: save_city_events reads the file and later rewrites it, with no lock
\* in between: when two calls for one city both read the file before either
\* writes, the file ends as the call that wrote last left it, without the
\* events that only the other call appended; the test of each call for ids
\* that exist already does not prevent it.
C30_LostUpdate ==
    BothReadFirst
    => LET first == calls.dumps[1]
           last  == calls.dumps[2]
       IN  /\ IdsOf(store.recs) = IdsOf(calls.found) \cup IdsFor(calls.events[last])
           /\ \A id \in IdsFor(calls.events[first]) :
                (id \notin IdsFor(calls.events[last]) /\ id \notin IdsOf(calls.found))
                  => id \notin IdsOf(store.recs)

\* two calls with a common event that both returned, after which the file
\* lacks the event that only the first to write appended
C30_Witness ==
    /\ BothReadFirst
    /\ IdsFor(calls.events[1]) \cap IdsFor(calls.events[2]) # {}
    /\ \E id \in IdsOf(calls.combined[calls.dumps[1]]) : id \notin IdsOf(store.recs)

\* the events of the input that have a location, in order
Located == SelectSeq(geo.given, LAMBDA e : "location" \in DOMAIN e /\ e["location"] # <<>>)

\* the value of a key of an event, empty when the event lacks the key
PartOf(e, k) == IF k \in DOMAIN e THEN e[k] ELSE <<>>

\* the non-empty ones of location, city_name and country_code of an event
\* with a location, joined by ", "
AddressOf(e) ==
    e["location"]
      \o (IF PartOf(e, "city_name") # <<>>
            THEN <<",", " ">> \o PartOf(e, "city_name") ELSE <<>>)
      \o (IF PartOf(e, "country_code") # <<>>
            THEN <<",", " ">> \o PartOf(e, "country_code") ELSE <<>>)

\* C27: one call of geo_tag_events sends exactly one lookup for the city,
\* before any lookup for an event, and exactly one lookup for every event
\* with a non-empty location, in order, whose address is the non-empty ones
\* of location, city_name and country_code joined in that order.
C27_OneLookupEach ==
    (geo.phase = "args" /\ geo.called)
    => /\ Len(geo.lookups) = 1 + Len(Located)
       /\ geo.lookups[1].address = CityName \o <<",", " ">> \o CountryCode
       /\ \A j \in DOMAIN Located :
            geo.lookups[j + 1].address = AddressOf(Located[j])

\* a call with an event that names no city and an event without a location
C27_Witness ==
    /\ geo.phase = "args" /\ geo.called
    /\ Len(geo.lookups) = Len(geo.given)
    /\ \E j \in 2..Len(geo.lookups) : geo.lookups[j].address = LMgRd
    /\ \E i \in DOMAIN geo.given : geo.answers[i] = NotAsked

====
